---------------------------- MODULE Spec2Model ----------------------------
(* app.py: a startup synchroniser (git pull, defensive logging) followed by *)
(* a Flask server with three routes.  The process is modelled statement by  *)
(* statement; pc holds the line of app.py that executes next.               *)
EXTENDS Integers, Sequences, FiniteSets, TLC

VARIABLES
    pc,              \* "L<n>": line n of app.py runs next; "serving"; "exited"
    log,             \* the lines app.py's print calls wrote, in order
    failedWrites,    \* the print calls (by line) that raised
    env,             \* os.environ's PORT entry
    git,             \* what the git binary of this machine does when run
    pullCount,       \* how many times subprocess.run(['git','pull']) was entered
    pullOutcome,     \* "none" | "pending" | "returned" | "missing" | "fault"
    result,          \* the CompletedProcess of line 17
    configured_port, \* the variable of lines 113/119 (0 until it is bound)
    exitStatus,      \* the interpreter's exit status once pc = "exited"
    appRunCalled,    \* line 125 was reached
    fs,              \* the static folder: file name -> content or Absent
    idxReq,          \* a GET / between os.path.exists and send_from_directory
    resp,            \* the last response sent
    handled          \* requests answered so far

vars == <<pc, log, failedWrites, env, git, pullCount, pullOutcome, result,
          configured_port, exitStatus, appRunCalled, fs, idxReq, resp, handled>>

startupVars == <<pc, log, failedWrites, env, git, pullCount, pullOutcome, result,
                 configured_port, exitStatus, appRunCalled>>

serverVars == <<fs, idxReq, resp, handled>>

-----------------------------------------------------------------------------
(* Bounds and constants *)

MaxRequests == 2

DefaultPort == 9000

MaxTcpPort == 65535

-----------------------------------------------------------------------------
(* Strings are sequences of one-character strings, so that int() and str()  *)
(* are computed and not assumed.                                            *)

DigitChars == <<"0", "1", "2", "3", "4", "5", "6", "7", "8", "9">>

IsDigit(c) == \E i \in 1..10 : DigitChars[i] = c

DigitVal(c) == (CHOOSE i \in 1..10 : DigitChars[i] = c) - 1

Whitespace == {" "}

RECURSIVE LStrip(_)
LStrip(s) == IF s # <<>> /\ Head(s) \in Whitespace THEN LStrip(Tail(s)) ELSE s

RECURSIVE RStrip(_)
RStrip(s) ==
    IF s # <<>> /\ s[Len(s)] \in Whitespace
    THEN RStrip(SubSeq(s, 1, Len(s) - 1))
    ELSE s

\* The digit part int() accepts: digits, single underscores only between digits.
ValidDigits(d) ==
    /\ d # <<>>
    /\ \A i \in 1..Len(d) :
          \/ IsDigit(d[i])
          \/ /\ d[i] = "_"
             /\ i > 1
             /\ i < Len(d)
             /\ IsDigit(d[i - 1])
             /\ IsDigit(d[i + 1])

RECURSIVE DigitsValue(_, _)
DigitsValue(d, acc) ==
    IF d = <<>> THEN acc
    ELSE IF Head(d) = "_" THEN DigitsValue(Tail(d), acc)
    ELSE DigitsValue(Tail(d), acc * 10 + DigitVal(Head(d)))

\* Python's int(str): [ok |-> FALSE] stands for ValueError.
PyInt(s) ==
    LET t == RStrip(LStrip(s))
        signed == t # <<>> /\ Head(t) \in {"+", "-"}
        d == IF signed THEN Tail(t) ELSE t
        mag == DigitsValue(d, 0)
    IN  IF ValidDigits(d)
        THEN [ok |-> TRUE, val |-> IF signed /\ Head(t) = "-" THEN 0 - mag ELSE mag]
        ELSE [ok |-> FALSE, val |-> 0]

RECURSIVE NatToStr(_)
NatToStr(n) ==
    IF n < 10 THEN <<DigitChars[n + 1]>>
    ELSE NatToStr(n \div 10) \o <<DigitChars[(n % 10) + 1]>>

\* Python's str(int), as the f-strings of lines 34 and 121 format it.
PyStr(n) == IF n < 0 THEN <<"-">> \o NatToStr(0 - n) ELSE NatToStr(n)

DefaultPortStr == <<"9", "0", "0", "0">>

\* os.environ.get('PORT', default)
EnvGetPort(default) == IF env.set THEN env.val ELSE default

-----------------------------------------------------------------------------
(* Inputs *)

PortValues ==
    { <<"9", "0", "0", "0">>,
      <<"8", "0", "8", "0">>,
      <<" ", "8", "0">>,
      <<"8", "_", "0">>,
      <<"a", "b", "c">>,
      <<>>,
      <<"-", "5">>,
      <<"7", "0", "0", "0", "0">> }

EnvValues ==
    {[set |-> FALSE, val |-> <<>>]} \cup {[set |-> TRUE, val |-> v] : v \in PortValues}

ExitCodes == {0, 1, 128}

Outputs == {"", "text"}

\* What running ['git', 'pull'] does: exits with a status and captured output,
\* is not installed, fails some other way, or never returns.
GitBehaviours ==
    {[kind |-> "exit", rc |-> r, out |-> o, err |-> e] :
        r \in ExitCodes, o \in Outputs, e \in Outputs}
    \cup {[kind |-> k, rc |-> 0, out |-> "", err |-> ""] : k \in {"missing", "fault", "hang"}}

Absent == "ABSENT"

\* The files of the static folder that come and go while the process runs,
\* and the paths requested; a path that is no such file is never there.
FileNames == {"index.html"}

Paths == {"index.html", "app.js"}

Contents == [f \in FileNames |-> {"doc1", "doc2"}]

\* The build as deployed before the process starts.
DeployedFiles == [f \in FileNames |-> "doc1"]

NoResp == [route |-> "", code |-> 0, kind |-> "", error |-> FALSE,
           status |-> "", port |-> <<>>, content |-> ""]

-----------------------------------------------------------------------------
Init ==
    /\ pc = "L109"
    /\ log = <<>>
    /\ failedWrites = {}
    /\ env \in EnvValues
    /\ git \in GitBehaviours
    /\ pullCount = 0
    /\ pullOutcome = "none"
    /\ result = [returncode |-> 0, stdout |-> "", stderr |-> ""]
    /\ configured_port = 0
    /\ exitStatus = 0
    /\ appRunCalled = FALSE
    /\ fs = DeployedFiles
    /\ idxReq = "idle"
    /\ resp = NoResp
    /\ handled = 0


-----------------------------------------------------------------------------
(* print(..., file=stream): the line is written, or the write raises (a      *)
(* closed or broken stream) and control goes to the enclosing handler.       *)
(* onFail = "exited": no handler encloses the call; the interpreter prints a *)
(* traceback and exits with status 1.                                        *)

print(stream, msg, arg, next, onFail) ==
    /\ \/ /\ log' = Append(log, [stream |-> stream, msg |-> msg, arg |-> arg])
          /\ pc' = next
          /\ UNCHANGED <<failedWrites, exitStatus>>
       \/ /\ failedWrites' = failedWrites \cup {pc}
          /\ pc' = onFail
          /\ exitStatus' = IF onFail = "exited" THEN 1 ELSE exitStatus
          /\ UNCHANGED log
    /\ UNCHANGED <<env, git, pullCount, pullOutcome, result, configured_port,
                   appRunCalled, serverVars>>

\* A statement that only moves control.
goto(next) ==
    /\ pc' = next
    /\ UNCHANGED <<log, failedWrites, env, git, pullCount, pullOutcome, result,
                   configured_port, exitStatus, appRunCalled, serverVars>>

-----------------------------------------------------------------------------
(* __main__ and _perform_initial_setup *)

L109_call_setup ==
    /\ pc = "L109"
    /\ goto("L67")

L67_print ==
    /\ pc = "L67"
    /\ print("stdout", "performing_setup", <<>>, "L14", "L73")

L69_print ==
    /\ pc = "L69"
    /\ print("stdout", "setup_complete_ready", <<>>, "L113", "L73")

L73_print ==
    /\ pc = "L73"
    /\ print("stderr", "critical_setup_error", <<>>, "L74", "L77")

L74_print ==
    /\ pc = "L74"
    /\ print("stderr", "may_not_function", <<>>, "L113", "L77")

L77_print ==
    /\ pc = "L77"
    /\ print("stderr", "critical_logging_failed", <<>>, "L113", "exited")

-----------------------------------------------------------------------------
(* update_repository *)

L14_print ==
    /\ pc = "L14"
    /\ print("stdout", "attempting_pull", <<>>, "L17", "L52")

\* subprocess.run is entered: the child runs and the process waits for it,
\* with no timeout argument.
L17_run ==
    /\ pc = "L17"
    /\ pc' = "L17_wait"
    /\ pullCount' = pullCount + 1
    /\ pullOutcome' = "pending"
    /\ UNCHANGED <<log, failedWrites, env, git, result, configured_port,
                   exitStatus, appRunCalled, serverVars>>

\* check=False: any exit status is returned, not raised.
L17_returns ==
    /\ pc = "L17_wait"
    /\ git.kind = "exit"
    /\ result' = [returncode |-> git.rc, stdout |-> git.out, stderr |-> git.err]
    /\ pullOutcome' = "returned"
    /\ pc' = "L24"
    /\ UNCHANGED <<log, failedWrites, env, git, pullCount, configured_port,
                   exitStatus, appRunCalled, serverVars>>

\* Mutant: no handler for FileNotFoundError, the generic one takes it.
L17_raises_generic ==
    /\ pc = "L17_wait"
    /\ git.kind \in {"missing", "fault"}
    /\ pullOutcome' = git.kind
    /\ pc' = "L52"
    /\ UNCHANGED <<log, failedWrites, env, git, pullCount, result, configured_port,
                   exitStatus, appRunCalled, serverVars>>

L17_raises ==
    /\ pc = "L17_wait"
    /\ git.kind \in {"missing", "fault"}
    /\ pullOutcome' = git.kind
    /\ pc' = IF git.kind = "missing" THEN "L46" ELSE "L52"
    /\ UNCHANGED <<log, failedWrites, env, git, pullCount, result, configured_port,
                   exitStatus, appRunCalled, serverVars>>

\* Mutant: check=True, a nonzero status raises CalledProcessError.
L24_if_raises ==
    /\ pc = "L24"
    /\ goto(IF result.returncode = 0 THEN "L26" ELSE "L52")

L24_if ==
    /\ pc = "L24"
    /\ goto(IF result.returncode = 0 THEN "L26" ELSE "L35")

L26_print ==
    /\ pc = "L26"
    /\ print("stdout", "pull_successful", <<>>, "L27", "L30")

L27_if ==
    /\ pc = "L27"
    /\ goto(IF result.stdout # "" THEN "L28" ELSE "L69")

L28_print ==
    /\ pc = "L28"
    /\ print("stdout", "pull_output", <<>>, "L69", "L30")

L30_print ==
    /\ pc = "L30"
    /\ print("stderr", "error_logging_success", <<>>, "L69", "L52")

L35_print ==
    /\ pc = "L35"
    /\ print("stderr", "pull_failed", PyStr(result.returncode), "L36", "L42")

L36_if ==
    /\ pc = "L36"
    /\ goto(IF result.stderr # "" THEN "L37" ELSE "L39")

L37_print ==
    /\ pc = "L37"
    /\ print("stderr", "pull_error_output", <<>>, "L39", "L42")

L39_if ==
    /\ pc = "L39"
    /\ goto(IF result.stdout # "" THEN "L40" ELSE "L69")

L40_print ==
    /\ pc = "L40"
    /\ print("stderr", "pull_output_on_failure", <<>>, "L69", "L42")

L42_print ==
    /\ pc = "L42"
    /\ print("stderr", "error_logging_failure", PyStr(result.returncode),
             "L69", "L52")

\* Mutant: the handler of line 44 falls through to the generic one.
L46_print_falls_through ==
    /\ pc = "L46"
    /\ print("stderr", "git_not_found", <<>>, "L52", "L48")

L46_print ==
    /\ pc = "L46"
    /\ print("stderr", "git_not_found", <<>>, "L69", "L48")

\* Raised inside the handler of line 44: the sibling handler of line 49 does
\* not apply, the exception leaves update_repository.
L48_print ==
    /\ pc = "L48"
    /\ print("stderr", "error_logging_not_found", <<>>, "L69", "L73")

\* Mutant: the write of line 52 has no handler of its own.
L52_print_fatal ==
    /\ pc = "L52"
    /\ print("stderr", "unexpected_error", <<>>, "L69", "exited")

L52_print ==
    /\ pc = "L52"
    /\ print("stderr", "unexpected_error", <<>>, "L69", "L54")

L54_print ==
    /\ pc = "L54"
    /\ print("stderr", "error_logging_unexpected", <<>>, "L69", "L73")

-----------------------------------------------------------------------------
(* __main__, lines 111-125 *)

\* Mutant: ValueError is not caught.
L113_int_uncaught ==
    /\ pc = "L113"
    /\ LET r == PyInt(EnvGetPort(DefaultPortStr))
       IN  IF r.ok
           THEN configured_port' = r.val /\ pc' = "L121" /\ exitStatus' = exitStatus
           ELSE configured_port' = configured_port /\ pc' = "exited" /\ exitStatus' = 1
    /\ UNCHANGED <<log, failedWrites, env, git, pullCount, pullOutcome, result,
                   appRunCalled, serverVars>>

L113_int ==
    /\ pc = "L113"
    /\ LET r == PyInt(EnvGetPort(DefaultPortStr))
       IN  IF r.ok
           THEN configured_port' = r.val /\ pc' = "L121"
           ELSE configured_port' = configured_port /\ pc' = "L118"
    /\ UNCHANGED <<log, failedWrites, env, git, pullCount, pullOutcome, result,
                   exitStatus, appRunCalled, serverVars>>

L118_print ==
    /\ pc = "L118"
    /\ print("stderr", "invalid_port_warning", EnvGetPort(DefaultPortStr),
             "L119", "exited")

L119_assign ==
    /\ pc = "L119"
    /\ configured_port' = PyInt(DefaultPortStr).val
    /\ pc' = "L121"
    /\ UNCHANGED <<log, failedWrites, env, git, pullCount, pullOutcome, result,
                   exitStatus, appRunCalled, serverVars>>

L121_print ==
    /\ pc = "L121"
    /\ print("stdout", "starting_server", PyStr(configured_port), "L125",
             "exited")

\* app.run binds 0.0.0.0:configured_port and serves.  bind() raises, and the
\* process exits, for a port outside 0..65535, and may raise for any port
\* (in use, not permitted).
L125_app_run ==
    /\ pc = "L125"
    /\ appRunCalled' = TRUE
    /\ \E bound \in BOOLEAN :
          IF bound /\ configured_port \in 0..MaxTcpPort
          THEN pc' = "serving" /\ exitStatus' = exitStatus
          ELSE pc' = "exited" /\ exitStatus' = 1
    /\ UNCHANGED <<log, failedWrites, env, git, pullCount, pullOutcome, result,
                   configured_port, serverVars>>

Startup ==
    \/ L109_call_setup
    \/ L67_print
    \/ L69_print
    \/ L73_print
    \/ L74_print
    \/ L77_print
    \/ L14_print
    \/ L17_run
    \/ L17_returns
    \/ L17_raises
    \/ L24_if
    \/ L26_print
    \/ L27_if
    \/ L28_print
    \/ L30_print
    \/ L35_print
    \/ L36_if
    \/ L37_print
    \/ L39_if
    \/ L40_print
    \/ L42_print
    \/ L46_print
    \/ L48_print
    \/ L52_print
    \/ L54_print
    \/ L113_int
    \/ L118_print
    \/ L119_assign
    \/ L121_print
    \/ L125_app_run

-----------------------------------------------------------------------------
(* Routes.  A response is [route, code, kind, ...]; kind "json" is jsonify,  *)
(* "file" is a file sent by send_from_directory, "not_found_page" is the     *)
(* framework's own NotFound response.                                        *)

JsonError == [route |-> "/", code |-> 404, kind |-> "json", error |-> TRUE,
              status |-> "", port |-> <<>>, content |-> ""]

FileResp(route, content) ==
    [route |-> route, code |-> 200, kind |-> "file", error |-> FALSE,
     status |-> "", port |-> <<>>, content |-> content]

NotFoundPage(route) ==
    [route |-> route, code |-> 404, kind |-> "not_found_page", error |-> FALSE,
     status |-> "", port |-> <<>>, content |-> ""]

\* send_from_directory(app.static_folder, name)
send_from_directory(route, name) ==
    IF name \in FileNames /\ fs[name] # Absent
    THEN FileResp(route, fs[name])
    ELSE NotFoundPage(route)

\* Mutant: no os.path.exists test, as in serve_static_files.
serve_index_no_test ==
    /\ pc = "serving"
    /\ idxReq = "idle"
    /\ handled < MaxRequests
    /\ idxReq' = "send"
    /\ UNCHANGED <<startupVars, fs, resp, handled>>

\* serve_index up to the os.path.exists test of line 87; the 404 branch
\* returns at once.
serve_index_exists ==
    /\ pc = "serving"
    /\ idxReq = "idle"
    /\ handled < MaxRequests
    /\ IF fs["index.html"] = Absent
       THEN /\ resp' = JsonError
            /\ handled' = handled + 1
            /\ idxReq' = idxReq
       ELSE /\ idxReq' = "send"
            /\ UNCHANGED <<resp, handled>>
    /\ UNCHANGED <<startupVars, fs>>

\* serve_index, line 90: the file is opened now, not when it was tested.
serve_index_send ==
    /\ pc = "serving"
    /\ idxReq = "send"
    /\ resp' = send_from_directory("/", "index.html")
    /\ handled' = handled + 1
    /\ idxReq' = "idle"
    /\ UNCHANGED <<startupVars, fs>>

serve_static_files(path) ==
    /\ pc = "serving"
    /\ handled < MaxRequests
    /\ idxReq = "idle"
    /\ resp' = send_from_directory("/<path>", path)
    /\ handled' = handled + 1
    /\ UNCHANGED <<startupVars, fs, idxReq>>

\* Mutant: the handler runs the pull again.
api_status_pulls ==
    /\ pc = "serving"
    /\ handled < MaxRequests
    /\ idxReq = "idle"
    /\ resp' = [route |-> "/api/status", code |-> 200, kind |-> "json",
                error |-> FALSE, status |-> "Backend is running",
                port |-> EnvGetPort(DefaultPortStr), content |-> ""]
    /\ handled' = handled + 1
    /\ pullCount' = pullCount + 1
    /\ UNCHANGED <<pc, log, failedWrites, env, git, pullOutcome, result,
                   configured_port, exitStatus, appRunCalled, fs, idxReq>>

api_status ==
    /\ pc = "serving"
    /\ handled < MaxRequests
    /\ idxReq = "idle"
    /\ resp' = [route |-> "/api/status", code |-> 200, kind |-> "json",
                error |-> FALSE, status |-> "Backend is running",
                port |-> EnvGetPort(DefaultPortStr), content |-> ""]
    /\ handled' = handled + 1
    /\ UNCHANGED <<startupVars, fs, idxReq>>

\* Another process (a deploy, a build) writes or removes a file of the
\* static folder.  Startup never reads the folder, so only changes made
\* while the server runs are told apart.
fs_write(name, content) ==
    /\ pc = "serving"
    /\ fs[name] # content
    /\ fs' = [fs EXCEPT ![name] = content]
    /\ UNCHANGED <<startupVars, idxReq, resp, handled>>

fs_remove(name) ==
    /\ pc = "serving"
    /\ fs[name] # Absent
    /\ fs' = [fs EXCEPT ![name] = Absent]
    /\ UNCHANGED <<startupVars, idxReq, resp, handled>>

Serve ==
    \/ serve_index_exists
    \/ serve_index_send
    \/ \E path \in Paths : serve_static_files(path)
    \/ api_status

Environment ==
    \/ \E name \in FileNames : \E content \in Contents[name] : fs_write(name, content)
    \/ \E name \in FileNames : fs_remove(name)

Next == Startup \/ Serve \/ Environment

Spec == Init /\ [][Next]_vars


-----------------------------------------------------------------------------
(* Vocabulary of the properties *)

Logged(m) == \E i \in 1..Len(log) : log[i].msg = m

Positions(m) == {i \in 1..Len(log) : log[i].msg = m}

OutcomeMsgs == {"pull_successful", "pull_failed", "git_not_found", "unexpected_error"}

OutcomePositions == {i \in 1..Len(log) : log[i].msg \in OutcomeMsgs}

\* The print calls no try statement encloses (line 77 sits in the last handler).
UnguardedWrites == {"L77", "L118", "L121"}

\* _perform_initial_setup has returned.
SetupDone ==
    pc \in {"L113", "L118", "L119", "L121", "L125", "serving"}
       \/ (pc = "exited" /\ "L77" \notin failedWrites)

NonzeroReturned == pullOutcome = "returned" /\ result.returncode # 0

PortParses == PyInt(EnvGetPort(DefaultPortStr)).ok

UsablePort == PortParses /\ PyInt(EnvGetPort(DefaultPortStr)).val \in 0..MaxTcpPort

-----------------------------------------------------------------------------
(* C1 *)

-----------------------------------------------------------------------------
(* C2 *)

\* C2: a pull that is outstanding never blocks startup: while the process
\* waits for it, a next step is always possible (the pull returns or raises,
\* or its wait is cut off by the timeout), so that serving is reached
\* whatever the subprocess does.
C2_PullNeverBlocks == pullOutcome = "pending" => ENABLED Startup

-----------------------------------------------------------------------------
(* C3 *)

\* C3: every response of GET /api/status is a 200 whose status field is
\* "Backend is running" and whose port field is the port given to app.run
\* (compared as numbers, so " 80" and 80 match).
C3_StatusPort ==
    resp.route = "/api/status" =>
        /\ resp.code = 200
        /\ resp.status = "Backend is running"
        /\ PyInt(resp.port).ok
        /\ PyInt(resp.port).val = configured_port

-----------------------------------------------------------------------------
(* C4 *)

-----------------------------------------------------------------------------
(* C5 *)

\* C5 as stated: whenever PORT is not a usable port integer, app.run is
\* reached with port 9000 and the warning written.
C5_Original ==
    (pc = "L125" /\ ~UsablePort) =>
        configured_port = DefaultPort /\ Logged("invalid_port_warning")

\* C5, amended: for every PORT value int() rejects, the warning naming the
\* value is written to stderr, configured_port becomes 9000 and app.run is
\* called with 9000; if the warning write or the 'Starting' write after it
\* raises, the process exits before app.run.  A value int() accepts is used as it is, without a warning, also
\* when it is no usable port (-5, 70000).
C5_Amended ==
    /\ (~PortParses /\ pc \in {"L119", "L121", "L125", "serving"}) =>
          /\ \E i \in 1..Len(log) :
                log[i] = [stream |-> "stderr", msg |-> "invalid_port_warning",
                          arg |-> EnvGetPort(DefaultPortStr)]
          /\ pc # "L119" => configured_port = DefaultPort
    /\ (~PortParses /\ "L118" \in failedWrites) => (pc = "exited" /\ ~appRunCalled)
    /\ (~PortParses /\ appRunCalled) =>
          /\ configured_port = DefaultPort
          /\ log[Len(log)] = [stream |-> "stdout", msg |-> "starting_server",
                              arg |-> PyStr(DefaultPort)]
    /\ (pc = "exited" /\ ~appRunCalled /\ "L77" \notin failedWrites) =>
          failedWrites \cap {"L118", "L121"} # {}
    /\ (PortParses /\ pc \in {"L121", "L125", "serving"}) =>
          /\ configured_port = PyInt(EnvGetPort(DefaultPortStr)).val
          /\ ~Logged("invalid_port_warning")

C5_Witness ==
    /\ env = [set |-> TRUE, val |-> <<"a", "b", "c">>]
    /\ pc = "serving"
    /\ configured_port = DefaultPort

-----------------------------------------------------------------------------
(* C6 *)

\* C6: every response of GET / is the 200 with the document or the 404 JSON
\* error, also when index.html is created or removed while the request runs.
C6_TwoResponses ==
    resp.route = "/" =>
        \/ resp.code = 200 /\ resp.kind = "file" /\ resp.content \in Contents["index.html"]
        \/ resp.code = 404 /\ resp.kind = "json" /\ resp.error

-----------------------------------------------------------------------------
(* C7 *)

-----------------------------------------------------------------------------
(* C8 *)

-----------------------------------------------------------------------------
(* C9 *)

\* C9 as stated: a GET / answered with the 404 JSON error also writes a log
\* entry.
C9_Original ==
    [][(handled' = handled + 1 /\ resp' = JsonError) => log' # log]_vars

\* C9, amended: a GET / handled while index.html is absent is answered with
\* the 404 JSON error, and the handler writes nothing to the log.
C9_Amended ==
    [][/\ (pc = "serving" /\ idxReq = "idle" /\ fs["index.html"] = Absent
            /\ (idxReq' # idxReq \/ (handled' # handled /\ resp'.route = "/")))
          => (resp' = JsonError /\ handled' = handled + 1 /\ idxReq' = "idle"
              /\ log' = log)
       /\ (handled' = handled + 1 /\ resp' = JsonError)
          => (fs["index.html"] = Absent /\ log' = log)]_vars

C9_Witness ==
    /\ resp = JsonError
    /\ handled > 0
    /\ fs["index.html"] = Absent

-----------------------------------------------------------------------------
(* C10 *)

ExpectedOutcomeMsg ==
    CASE pullOutcome = "returned" /\ result.returncode = 0 -> "pull_successful"
      [] pullOutcome = "returned" /\ result.returncode # 0 -> "pull_failed"
      [] pullOutcome = "missing" -> "git_not_found"
      [] OTHER -> "unexpected_error"

\* C10: in a startup where no print call has raised and the pull returned or
\* raised, once setup is done the log holds exactly one outcome message, the
\* one of the pull's outcome, after 'Attempting to pull' and before 'Initial
\* setup complete', and the latter is there whatever the outcome.
C10_OneOutcome ==
    (failedWrites = {} /\ SetupDone /\ pullOutcome \in {"returned", "missing", "fault"}) =>
        /\ Cardinality(OutcomePositions) = 1
        /\ Cardinality(Positions("attempting_pull")) = 1
        /\ Cardinality(Positions("setup_complete_ready")) = 1
        /\ \A i \in OutcomePositions :
              /\ log[i].msg = ExpectedOutcomeMsg
              /\ \A a \in Positions("attempting_pull") : a < i
              /\ \A r \in Positions("setup_complete_ready") : i < r

C10_Witness ==
    /\ failedWrites = {}
    /\ pullOutcome = "fault"
    /\ pc = "serving"
    /\ Logged("setup_complete_ready")

=============================================================================
